---- MODULE Spec2Model ----
(***************************************************************************)
(* A model of the LlamaStack adapter: the HTTP handlers of                 *)
(* internal/handlers (models.go, health.go), the upstream client of        *)
(* internal/llamastack/client.go, the response types of                    *)
(* internal/models/types.go, LoadConfig of internal/config/config.go and   *)
(* the process of cmd/adapter/main.go from its start to its exit.          *)
(*                                                                         *)
(* Go strings that the code inspects byte by byte (the Authorization       *)
(* header, the configured endpoint) are sequences of one-character         *)
(* strings; strings the code only passes around are TLA+ strings.          *)
(***************************************************************************)
EXTENDS Integers, Sequences, FiniteSets, TLC

VARIABLES cfg, startTime, reqs, probe, proc

vars == <<cfg, startTime, reqs, probe, proc>>

(***************************************************************************)
(* Bounds of the model.                                                    *)
(***************************************************************************)
\* Number of inbound requests served concurrently (one goroutine each).
MaxReq == 1
\* Longest upstream model list.
MaxModels == 2
\* Longest bearer token / header tail drawn for validateAuth.
MaxTokenLen == 2
\* Longest configured endpoint drawn for the URL construction.
MaxEndpointLen == 3
\* Number of distinct readings of the wall clock (time.Now()).
MaxClock == 1

Nil == "nil"

Min(a, b) == IF a < b THEN a ELSE b

\* All sequences over S of length 0..n.
RECURSIVE SeqsUpTo(_, _)
SeqsUpTo(S, n) ==
    IF n = 0 THEN {<<>>}
    ELSE LET shorter == SeqsUpTo(S, n - 1)
         IN  shorter \cup {Append(s, x) : s \in {t \in shorter : Len(t) = n - 1}, x \in S}

(***************************************************************************)
(* strings.HasPrefix / strings.TrimPrefix on character sequences.          *)
(***************************************************************************)
HasPrefix(s, prefix) ==
    /\ Len(s) >= Len(prefix)
    /\ SubSeq(s, 1, Len(prefix)) = prefix

TrimPrefix(s, prefix) ==
    IF HasPrefix(s, prefix) THEN SubSeq(s, Len(prefix) + 1, Len(s)) ELSE s

\* The literal "Bearer " of validateAuth.
BearerPrefix == <<"B", "e", "a", "r", "e", "r", " ">>

(***************************************************************************)
(* ModelsHandler.validateAuth: the error message, or Nil.                  *)
(***************************************************************************)
MsgMissing == "Missing Authorization header"
MsgFormat == "Invalid Authorization header format"
MsgEmpty == "Empty token"

\* validateAuth with the token trimmed of spaces before the empty check.
validateAuthTrimmed(authHeader) ==
    IF authHeader = <<>> THEN MsgMissing
    ELSE IF ~HasPrefix(authHeader, BearerPrefix) THEN MsgFormat
    ELSE IF \A k \in Len(BearerPrefix) + 1..Len(authHeader) : authHeader[k] = " "
         THEN MsgEmpty
    ELSE Nil

validateAuth(authHeader) ==
    IF authHeader = <<>> THEN MsgMissing
    ELSE IF ~HasPrefix(authHeader, BearerPrefix) THEN MsgFormat
    ELSE IF TrimPrefix(authHeader, BearerPrefix) = <<>> THEN MsgEmpty
    ELSE Nil

(***************************************************************************)
(* internal/llamastack/client.go                                           *)
(***************************************************************************)
\* defaultTimeout of the client's http.Client, in seconds.
defaultTimeout == 30
\* Declared beside defaultTimeout; no code reads it.
maxRetries == 3

\* The string literals of the two URL constructions.
SlashV1Models == <<"/", "v", "1", "/", "m", "o", "d", "e", "l", "s">>
V1Models == <<"v", "1", "/", "m", "o", "d", "e", "l", "s">>
SlashHealth == <<"/", "h", "e", "a", "l", "t", "h">>
HealthLit == <<"h", "e", "a", "l", "t", "h">>

\* c.endpoint[len(c.endpoint)-1:] == "/"
EndsWithSlash(endpoint) ==
    SubSeq(endpoint, Len(endpoint), Len(endpoint)) = <<"/">>

\* ListModelsURL without the trailing-slash test.
ListModelsURLNoTest(endpoint) == endpoint \o SlashV1Models

\* url of ListModels.
ListModelsURL(endpoint) ==
    IF EndsWithSlash(endpoint) THEN endpoint \o V1Models
    ELSE endpoint \o SlashV1Models

\* url of Health.
HealthURL(endpoint) ==
    IF EndsWithSlash(endpoint) THEN endpoint \o HealthLit
    ELSE endpoint \o SlashHealth

\* The Authorization header the client sets: <<>> is "not set".
UpstreamAuthorization(apiKey) ==
    IF apiKey # <<>> THEN BearerPrefix \o apiKey ELSE <<>>

\* The outbound request of ListModels under a context that expires after
\* `ceiling` seconds.
ListModelsRequest(c, ceiling) ==
    [method |-> "GET", url |-> ListModelsURL(c.endpoint),
     authorization |-> UpstreamAuthorization(c.apiKey),
     contentType |-> "application/json", ceiling |-> ceiling]

\* The outbound request of Health.
HealthRequest(c, ceiling) ==
    [method |-> "GET", url |-> HealthURL(c.endpoint),
     authorization |-> UpstreamAuthorization(c.apiKey),
     contentType |-> "", ceiling |-> ceiling]

(***************************************************************************)
(* What the upstream does with one outbound request: after `lat` seconds   *)
(* either the transport fails or a response arrives.  A response body is   *)
(* either no JSON at all ("garbage"), zero bytes ("empty"), the JSON       *)
(* literal null ("null"), or a JSON object whose "models" member is        *)
(* absent, null, a string or an array of model objects.                    *)
(***************************************************************************)
NoBody == [form |-> "empty", field |-> "absent", elems |-> <<>>]

TransportFailure(text) ==
    [kind |-> "transport", text |-> text, status |-> 0, body |-> NoBody]

Response(status, body) ==
    [kind |-> "response", text |-> "", status |-> status, body |-> body]

\* A Go error value: which wrapping produced it and the detail it carries.
NoErr == [kind |-> Nil, text |-> "", status |-> 0, body |-> NoBody]

Err(kind, text, status, body) ==
    [kind |-> kind, text |-> text, status |-> status, body |-> body]

\* The inbound request's own cancellation: the client disconnects `at`
\* seconds after the handler started, or never.
NoDisconnect == [on |-> FALSE, at |-> 0]

Disconnect(at) == [on |-> TRUE, at |-> at]

\* No response: the value of resp when httpClient.Do returns an error.
NoResp == [kind |-> "none", text |-> "", status |-> 0, body |-> NoBody]

\* Deadline with a request built from context.Background(): only the
\* http.Client's Timeout ends the wait.
DeadlineClientOnly(call, cancel) == defaultTimeout

\* When the context of an outbound request ends: the handler's ceiling or
\* the client disconnect, whichever is first; the http.Client's own Timeout
\* runs beside it.
Deadline(call, cancel) ==
    LET d == Min(call.ceiling, defaultTimeout)
    IN  IF cancel.on /\ cancel.at < d THEN cancel.at ELSE d

\* The error httpClient.Do returns when the wait is cut short.
CutError(call, cancel) ==
    IF cancel.on /\ cancel.at < Min(call.ceiling, defaultTimeout)
    THEN Err("transport", "context canceled", 0, NoBody)
    ELSE Err("transport", "context deadline exceeded", 0, NoBody)

\* httpClient.Do: the set of outcomes [elapsed, err, resp] it can have
\* against upstream behaviour `up`.  An answer arriving exactly at the
\* deadline races with it.
Do(call, up, cancel) ==
    LET dl == Deadline(call, cancel)
        cut == [elapsed |-> dl, err |-> CutError(call, cancel), resp |-> NoResp]
        got == IF up.res.kind = "transport"
               THEN [elapsed |-> up.lat,
                     err |-> Err("transport", up.res.text, 0, NoBody),
                     resp |-> NoResp]
               ELSE [elapsed |-> up.lat, err |-> NoErr, resp |-> up.res]
    IN  IF up.lat < dl THEN {got}
        ELSE IF up.lat = dl THEN {got, cut}
        ELSE {cut}

\* json.NewDecoder(resp.Body).Decode(&llamaResponse): ok and the Models
\* slice (nil unless an array was decoded).
Decode(body) ==
    IF body.form = "null" THEN [ok |-> TRUE, isNil |-> TRUE, elems |-> <<>>]
    ELSE IF body.form # "object" THEN [ok |-> FALSE, isNil |-> TRUE, elems |-> <<>>]
    ELSE IF body.field = "array" THEN [ok |-> TRUE, isNil |-> FALSE, elems |-> body.elems]
    ELSE IF body.field \in {"absent", "null"}
         THEN [ok |-> TRUE, isNil |-> TRUE, elems |-> <<>>]
    ELSE [ok |-> FALSE, isNil |-> TRUE, elems |-> <<>>]

\* ConvertModels taking the owner from the upstream record's provider.
ConvertModelsByProvider(llamaModels, now) ==
    [isNil |-> FALSE,
     elems |-> [i \in 1..Len(llamaModels.elems) |->
                  [id |-> llamaModels.elems[i].id, object |-> "model",
                   created |-> now,
                   owned_by |-> IF llamaModels.elems[i].provider # ""
                                THEN llamaModels.elems[i].provider
                                ELSE "llamastack"]]]

\* ConvertModels starting from "var openaiModels []openai.Model": the
\* slice stays nil when nothing is appended.
ConvertModelsNilSlice(llamaModels, now) ==
    [isNil |-> Len(llamaModels.elems) = 0,
     elems |-> [i \in 1..Len(llamaModels.elems) |->
                  [id |-> llamaModels.elems[i].id, object |-> "model",
                   created |-> now, owned_by |-> "llamastack"]]]

\* The conversion loop of ListModels: make([]openai.Model, 0, n), then one
\* append per upstream record.
ConvertModels(llamaModels, now) ==
    [isNil |-> FALSE,
     elems |-> [i \in 1..Len(llamaModels.elems) |->
                  [id |-> llamaModels.elems[i].id, object |-> "model",
                   created |-> now, owned_by |-> "llamastack"]]]

NoModels == [isNil |-> TRUE, elems |-> <<>>]

\* resp.StatusCode != http.StatusOK
ListStatusFails(status) == status # 200

\* Client.ListModels after httpClient.Do returned `o`: [models, err].
ListModels(o, now) ==
    IF o.err.kind # Nil
    THEN [models |-> NoModels, err |-> Err("request", o.err.text, 0, NoBody)]
    ELSE IF ListStatusFails(o.resp.status)
    THEN [models |-> NoModels,
          err |-> Err("status", "", o.resp.status, o.resp.body)]
    ELSE IF ~Decode(o.resp.body).ok
    THEN [models |-> NoModels, err |-> Err("decode", "", 0, o.resp.body)]
    ELSE [models |-> ConvertModels(Decode(o.resp.body), now), err |-> NoErr]

\* HealthStatusOK accepting 200 alone.
HealthStatusOKOnly200(status) == status = 200

\* resp.StatusCode >= 200 && resp.StatusCode < 300
HealthStatusOK(status) == status >= 200 /\ status < 300

\* Client.Health after httpClient.Do returned `o`: the error, or NoErr.
Health(o) ==
    IF o.err.kind # Nil THEN Err("request", o.err.text, 0, NoBody)
    ELSE IF HealthStatusOK(o.resp.status) THEN NoErr
    ELSE Err("status", "", o.resp.status, NoBody)

(***************************************************************************)
(* internal/models/types.go, and the JSON that c.JSON writes: a nil slice  *)
(* is written as null, a non-nil one as an array.                          *)
(***************************************************************************)
NewModelsResponse(models) ==
    [object |-> "list",
     data |-> [null |-> models.isNil, items |-> models.elems]]

NewErrorResponse(message, errorType) ==
    [error |-> [message |-> message, type |-> errorType]]

\* No response written yet.
NoResponse == [none |-> TRUE]

(***************************************************************************)
(* cmd/adapter/main.go: the objects main builds from the configuration.    *)
(***************************************************************************)
NewClient(endpoint, apiKey) ==
    [endpoint |-> endpoint, apiKey |-> apiKey, timeout |-> defaultTimeout]

\* NewModelsHandler dropping its enableAuth argument.
NewModelsHandlerAlwaysAuth(enableAuth) == [enableAuth |-> TRUE]

NewModelsHandler(enableAuth) == [enableAuth |-> enableAuth]

llamaClient == NewClient(cfg.LlamaStackEndpoint, cfg.LlamaStackAPIKey)

modelsHandler == NewModelsHandler(cfg.EnableAuth)

(***************************************************************************)
(* The inputs the model draws.                                             *)
(***************************************************************************)
\* Authorization headers of inbound requests: none, another scheme, the
\* bare prefix, a token, a lower-case prefix.
Headers ==
    {<<>>, <<"B", "a", "s", "i", "c", " ", "x">>, BearerPrefix,
     BearerPrefix \o <<"t">>, <<"b", "e", "a", "r", "e", "r", " ", "t">>}

\* One endpoint stands for all here; SpecURL below draws the others.
Endpoints == {<<"h", "/">>}

APIKeys == {<<"k">>}

Configs ==
    [LlamaStackEndpoint : Endpoints, LlamaStackAPIKey : APIKeys,
     EnableAuth : BOOLEAN]

\* Readings of the wall clock after process start.
Clock == 0..MaxClock

\* Seconds the upstream takes: under every ceiling, between the readiness
\* and the deep-health ceiling, exactly the deep-health ceiling, between
\* deep health and listing, over all.
Latencies == {1, 7, 10, 20, 40}

Disconnects == {NoDisconnect, Disconnect(3)}

ModelA == [id |-> "a", provider |-> "meta"]
ModelB == [id |-> "b", provider |-> ""]

Garbage == [form |-> "garbage", field |-> "absent", elems |-> <<>>]

ObjectWith(field, elems) == [form |-> "object", field |-> field, elems |-> elems]

UpstreamResults ==
    {TransportFailure("connection refused"),
     Response(200, ObjectWith("array", <<ModelA, ModelB>>)),
     Response(200, ObjectWith("absent", <<>>)),
     Response(200, Garbage),
     Response(204, NoBody),
     Response(500, Garbage)}

UpstreamBehaviours == [lat : Latencies, res : UpstreamResults]

NoUp == [lat |-> 0, res |-> NoResp]

\* httpClient.Do has not returned.
NoDid == [elapsed |-> 0, err |-> NoErr, resp |-> NoResp]

(***************************************************************************)
(* State.  cfg is the configuration main loaded, startTime the package     *)
(* variable of health.go.  reqs holds one exchange per connection being    *)
(* served: the request, what its handler did and saw (validateAuth runs,   *)
(* outbound requests sent, the client's disconnect, the upstream's         *)
(* behaviour, what httpClient.Do returned), the response written and       *)
(* whether the server's flush of it met the connection's write deadline.   *)
(* pc is "idle" (no request), "await" (the goroutine is inside             *)
(* httpClient.Do) or "done" (the handler returned).  proc is the process:  *)
(* where main is (phase), whether the grace period of server.Shutdown has  *)
(* run out, and at exit the status, the error main exited on and the       *)
(* number of requests still in flight.                                     *)
(***************************************************************************)
Slots == 1..MaxReq

\* main has started the listener and waits for a signal.
Serving ==
    [phase |-> "serving", graceOver |-> FALSE, code |-> 0, err |-> "",
     killed |-> 0]

\* The listener accepts connections.
Accepting == proc.phase = "serving"

\* The process is alive and its handlers run.
Running == proc.phase \in {"serving", "draining"}

\* The grace period main gives server.Shutdown.
ShutdownGrace == 30

\* The outcomes of httpClient.Do a handler can still see: once the grace
\* period has run out, a handler that has not returned is one whose call
\* lasted that long.
Returning(outcomes) ==
    {o \in outcomes : proc.graceOver => o.elapsed >= ShutdownGrace}

IdleReq ==
    [pc |-> "idle", path |-> "", authHeader |-> <<>>, guard |-> 0,
     calls |-> <<>>, cancel |-> NoDisconnect, up |-> NoUp, did |-> NoDid,
     status |-> 0, body |-> NoResponse, flushed |-> FALSE]

Init ==
    /\ cfg \in Configs
    /\ startTime = 0
    /\ proc = Serving
    /\ reqs = [i \in Slots |-> IdleReq]
    /\ probe = NoResponse

\* http.Server.WriteTimeout of main: the write deadline of the connection
\* is set that long after the request has been read, which is before the
\* handler runs.
WriteTimeout == 30

\* Whether the flush of the response reaches the connection when the
\* handler returns `elapsed` after its start: before the write deadline it
\* does, after it it does not.  A handler returning at its own 30 s ceiling
\* returns at the instant of the write deadline armed just before its start;
\* which timer the runtime serves first is not fixed by the code.
Flush(elapsed) ==
    IF elapsed < WriteTimeout THEN {TRUE}
    ELSE IF elapsed = WriteTimeout THEN {TRUE, FALSE}
    ELSE {FALSE}

\* c.JSON(status, body) and return, with no upstream call before it.
Reply(r, status, body) ==
    [r EXCEPT !.pc = "done", !.status = status, !.body = body,
              !.flushed = TRUE]

\* c.JSON(status, body) and return, after the upstream call: the client
\* disconnected as `cancel` says, the upstream behaved as `up`, and
\* httpClient.Do returned `o`; the flush met the write deadline as `f` says.
ReplyAfter(r, cancel, up, o, f, status, body) ==
    [Reply(r, status, body) EXCEPT !.cancel = cancel, !.up = up, !.did = o,
                                   !.flushed = f]

\* The goroutine of slot i stops at httpClient.Do with request `call` sent.
Await(r, call) == [r EXCEPT !.pc = "await", !.calls = Append(r.calls, call)]

(***************************************************************************)
(* ModelsHandler.HandleListModels, up to the upstream call.                *)
(***************************************************************************)
ListCeiling == 30

AuthenticationRequired ==
    NewErrorResponse("Authentication required", "authentication_error")

\* HandleListModelsBegin without the return after the 401: the handler
\* goes on to the upstream call.
HandleListModelsBeginNoReturn(i) ==
    /\ Accepting
    /\ reqs[i].pc = "idle"
    /\ \E h \in Headers :
         LET r == [IdleReq EXCEPT !.path = "/v1/models", !.authHeader = h]
             checked == [r EXCEPT !.guard = 1]
             call == ListModelsRequest(llamaClient, ListCeiling)
         IN  IF modelsHandler.enableAuth
             THEN IF validateAuth(h) # Nil
                  THEN reqs' = [reqs EXCEPT ![i] =
                           Await([checked EXCEPT !.status = 401,
                                     !.body = AuthenticationRequired], call)]
                  ELSE reqs' = [reqs EXCEPT ![i] = Await(checked, call)]
             ELSE reqs' = [reqs EXCEPT ![i] = Await(r, call)]
    /\ UNCHANGED <<cfg, startTime, probe, proc>>

HandleListModelsBegin(i) ==
    /\ Accepting
    /\ reqs[i].pc = "idle"
    /\ \E h \in Headers :
         LET r == [IdleReq EXCEPT !.path = "/v1/models", !.authHeader = h]
             checked == [r EXCEPT !.guard = 1]
             call == ListModelsRequest(llamaClient, ListCeiling)
         IN  IF modelsHandler.enableAuth
             THEN IF validateAuth(h) # Nil
                  THEN reqs' = [reqs EXCEPT ![i] =
                           Reply(checked, 401, AuthenticationRequired)]
                  ELSE reqs' = [reqs EXCEPT ![i] = Await(checked, call)]
             ELSE reqs' = [reqs EXCEPT ![i] = Await(r, call)]
    /\ UNCHANGED <<cfg, startTime, probe, proc>>

(***************************************************************************)
(* HandleListModels from the return of llamaClient.ListModels.             *)
(***************************************************************************)
InternalError ==
    NewErrorResponse("Failed to retrieve models from external service",
                     "internal_error")

\* ListModelsReply passing an upstream error status on to the caller.
ListModelsReplyPassStatus(res) ==
    IF res.err.kind = "status"
    THEN [status |-> res.err.status, body |-> InternalError]
    ELSE IF res.err.kind # Nil
    THEN [status |-> 500, body |-> InternalError]
    ELSE [status |-> 200, body |-> NewModelsResponse(res.models)]

\* ListModelsReply putting the error into the message.
ListModelsReplyLeak(res) ==
    IF res.err.kind # Nil
    THEN [status |-> 500, body |-> NewErrorResponse(res.err.kind, "internal_error")]
    ELSE [status |-> 200, body |-> NewModelsResponse(res.models)]

\* The status and body HandleListModels writes for the result of ListModels.
ListModelsReply(res) ==
    IF res.err.kind # Nil
    THEN [status |-> 500, body |-> InternalError]
    ELSE [status |-> 200, body |-> NewModelsResponse(res.models)]

\* HandleListModelsReturn with ListModels sending the request again after a
\* failed attempt, up to maxRetries attempts.
HandleListModelsReturnRetry(i) ==
    /\ Running
    /\ reqs[i].pc = "await"
    /\ reqs[i].path = "/v1/models"
    /\ \E up \in UpstreamBehaviours, d \in Disconnects, now \in Clock :
         \E o \in Returning(Do(reqs[i].calls[1], up, d)) : \E f \in Flush(o.elapsed) :
            LET res == ListModels(o, now)
                w == ListModelsReply(res)
            IN  reqs' = [reqs EXCEPT ![i] =
                    IF res.err.kind # Nil /\ Len(reqs[i].calls) < maxRetries
                    THEN Await(reqs[i], reqs[i].calls[1])
                    ELSE ReplyAfter(reqs[i], d, up, o, f, w.status, w.body)]
    /\ UNCHANGED <<cfg, startTime, probe, proc>>

HandleListModelsReturn(i) ==
    /\ Running
    /\ reqs[i].pc = "await"
    /\ reqs[i].path = "/v1/models"
    /\ \E up \in UpstreamBehaviours, d \in Disconnects, now \in Clock :
         \E o \in Returning(Do(reqs[i].calls[1], up, d)) : \E f \in Flush(o.elapsed) :
            LET w == ListModelsReply(ListModels(o, now))
            IN  reqs' = [reqs EXCEPT ![i] =
                    ReplyAfter(reqs[i], d, up, o, f, w.status, w.body)]
    /\ UNCHANGED <<cfg, startTime, probe, proc>>

(***************************************************************************)
(* internal/handlers/health.go                                             *)
(***************************************************************************)
HealthCeiling == 10

\* A readiness bound looser than the deep-health one.
ReadinessCeilingLoose == 3 * HealthCeiling

ReadinessCeiling == 5

\* The HealthResponse HandleHealth builds before the upstream call.
HealthResponse(now) ==
    [status |-> "", timestamp |-> now, services |-> <<>>,
     uptime |-> now - startTime, version |-> "1.0.0"]

\* response.Services[key] = value
SetService(response, key, value) ==
    [response EXCEPT !.services =
        [k \in DOMAIN response.services \cup {key} |->
            IF k = key THEN value ELSE response.services[k]]]

\* HandleHealthBegin taking the process start anew on each call, as if
\* startTime were assigned in the handler.
HandleHealthBeginRestartsClock(i) ==
    /\ Accepting
    /\ reqs[i].pc = "idle"
    /\ \E now \in Clock :
         /\ reqs' = [reqs EXCEPT ![i] =
               Await([IdleReq EXCEPT !.path = "/health", !.body = HealthResponse(now)],
                     HealthRequest(llamaClient, HealthCeiling))]
         /\ startTime' = now
    /\ UNCHANGED <<cfg, probe, proc>>

HandleHealthBegin(i) ==
    /\ Accepting
    /\ reqs[i].pc = "idle"
    /\ \E now \in Clock :
         reqs' = [reqs EXCEPT ![i] =
             Await([IdleReq EXCEPT !.path = "/health", !.body = HealthResponse(now)],
                   HealthRequest(llamaClient, HealthCeiling))]
    /\ UNCHANGED <<cfg, startTime, probe, proc>>

\* The status and body HandleHealth writes for the error of Health.
HealthReply(response, err) ==
    IF err.kind # Nil
    THEN [status |-> 503,
          body |-> SetService([response EXCEPT !.status = "unhealthy"],
                              "llamastack", "down")]
    ELSE [status |-> 200,
          body |-> SetService([response EXCEPT !.status = "healthy"],
                              "llamastack", "up")]

HandleHealthReturn(i) ==
    /\ Running
    /\ reqs[i].pc = "await"
    /\ reqs[i].path = "/health"
    /\ \E up \in UpstreamBehaviours, d \in Disconnects :
         \E o \in Returning(Do(reqs[i].calls[1], up, d)) : \E f \in Flush(o.elapsed) :
            LET w == HealthReply(reqs[i].body, Health(o))
            IN  reqs' = [reqs EXCEPT ![i] =
                    ReplyAfter(reqs[i], d, up, o, f, w.status, w.body)]
    /\ UNCHANGED <<cfg, startTime, probe, proc>>

HandleReadinessBegin(i) ==
    /\ Accepting
    /\ reqs[i].pc = "idle"
    /\ reqs' = [reqs EXCEPT ![i] =
           Await([IdleReq EXCEPT !.path = "/ready"],
                 HealthRequest(llamaClient, ReadinessCeiling))]
    /\ UNCHANGED <<cfg, startTime, probe, proc>>

\* ReadinessReply answering a failure with the snapshot of HandleHealth.
ReadinessReplySnapshot(err) ==
    IF err.kind # Nil
    THEN [status |-> 503,
          body |-> [status |-> "unhealthy", timestamp |-> 0,
                    services |-> [llamastack |-> "down"], uptime |-> 0,
                    version |-> "1.0.0"]]
    ELSE [status |-> 200, body |-> [ready |-> TRUE]]

\* The status and body HandleReadiness writes for the error of Health.
ReadinessReply(err) ==
    IF err.kind # Nil
    THEN [status |-> 503,
          body |-> [ready |-> FALSE, reason |-> "llamastack_unavailable"]]
    ELSE [status |-> 200, body |-> [ready |-> TRUE]]

HandleReadinessReturn(i) ==
    /\ Running
    /\ reqs[i].pc = "await"
    /\ reqs[i].path = "/ready"
    /\ \E up \in UpstreamBehaviours, d \in Disconnects :
         \E o \in Returning(Do(reqs[i].calls[1], up, d)) : \E f \in Flush(o.elapsed) :
            LET w == ReadinessReply(Health(o))
            IN  reqs' = [reqs EXCEPT ![i] =
                    ReplyAfter(reqs[i], d, up, o, f, w.status, w.body)]
    /\ UNCHANGED <<cfg, startTime, probe, proc>>

\* The status and body HandleLiveness writes.
LivenessReply(now) ==
    [status |-> 200, body |-> [alive |-> TRUE, timestamp |-> now]]

\* HandleLiveness asking the upstream first, as HandleReadiness does.
HandleLivenessAsksUpstream(i) ==
    /\ Accepting
    /\ reqs[i].pc = "idle"
    /\ reqs' = [reqs EXCEPT ![i] =
           Await([IdleReq EXCEPT !.path = "/live"],
                 HealthRequest(llamaClient, ReadinessCeiling))]
    /\ UNCHANGED <<cfg, startTime, probe, proc>>

HandleLiveness(i) ==
    /\ Accepting
    /\ reqs[i].pc = "idle"
    /\ \E now \in Clock :
         LET w == LivenessReply(now)
         IN  reqs' = [reqs EXCEPT ![i] =
                 Reply([IdleReq EXCEPT !.path = "/live"], w.status, w.body)]
    /\ UNCHANGED <<cfg, startTime, probe, proc>>

\* The response has been sent and the goroutine has ended.
Close(i) ==
    /\ Running
    /\ reqs[i].pc = "done"
    /\ reqs' = [reqs EXCEPT ![i] = IdleReq]
    /\ UNCHANGED <<cfg, startTime, probe, proc>>

Next ==
    \E i \in Slots :
        \/ HandleListModelsBegin(i)
        \/ HandleListModelsReturn(i)
        \/ HandleHealthBegin(i)
        \/ HandleHealthReturn(i)
        \/ HandleReadinessBegin(i)
        \/ HandleReadinessReturn(i)
        \/ HandleLiveness(i)
        \/ Close(i)

Spec == Init /\ [][Next]_vars

(***************************************************************************)
(* Two connections served at once: gin runs each request's handler in its  *)
(* own goroutine, and the handlers' steps interleave freely.               *)
(***************************************************************************)
Pair == {1, 2}

InitConc ==
    /\ cfg \in Configs
    /\ startTime = 0
    /\ proc = Serving
    /\ reqs = [i \in Pair |-> IdleReq]
    /\ probe = NoResponse

NextConc ==
    \E i \in Pair :
        \/ HandleListModelsBegin(i)
        \/ HandleListModelsReturn(i)
        \/ HandleHealthBegin(i)
        \/ HandleHealthReturn(i)
        \/ HandleReadinessBegin(i)
        \/ HandleReadinessReturn(i)
        \/ HandleLiveness(i)
        \/ Close(i)

SpecConc == InitConc /\ [][NextConc]_vars

(***************************************************************************)
(* validateAuth alone, over every header made of a candidate prefix and a  *)
(* tail of up to MaxTokenLen characters.                                   *)
(***************************************************************************)
HeaderPrefixes ==
    {<<>>, BearerPrefix,
     <<"B", "e", "a", "r", "e", "r">>,
     <<"b", "e", "a", "r", "e", "r", " ">>,
     <<"B", "E", "A", "R", "E", "R", " ">>,
     <<" ", "B", "e", "a", "r", "e", "r", " ">>,
     <<"B", "a", "s", "i", "c", " ">>}

HeaderTails == SeqsUpTo({"t", " ", "."}, MaxTokenLen)

AuthHeaders == {p \o t : p \in HeaderPrefixes, t \in HeaderTails}

DefaultConfig ==
    [LlamaStackEndpoint |-> <<"h">>, LlamaStackAPIKey |-> <<>>,
     EnableAuth |-> TRUE]

Pending == "pending"

InitAuth ==
    /\ cfg = DefaultConfig
    /\ startTime = 0
    /\ proc = Serving
    /\ reqs = [i \in Slots |-> IdleReq]
    /\ \E h \in AuthHeaders :
         probe = [fn |-> "validateAuth", authHeader |-> h, err |-> Pending]

ApplyValidateAuth ==
    /\ probe.err = Pending
    /\ probe' = [probe EXCEPT !.err = validateAuth(probe.authHeader)]
    /\ UNCHANGED <<cfg, startTime, reqs, proc>>

SpecAuth == InitAuth /\ [][ApplyValidateAuth]_vars

(***************************************************************************)
(* The two URL constructions alone, over every endpoint of 1 to            *)
(* MaxEndpointLen characters (LoadConfig refuses the empty endpoint).      *)
(***************************************************************************)
EndpointChars == {"h", ":", "/"}

AllEndpoints == SeqsUpTo(EndpointChars, MaxEndpointLen) \ {<<>>}

AllAPIKeys == {<<>>, <<"k">>}

NoCall ==
    [method |-> "", url |-> <<>>, authorization |-> <<>>, contentType |-> "",
     ceiling |-> 0]

InitURL ==
    /\ cfg = DefaultConfig
    /\ startTime = 0
    /\ proc = Serving
    /\ reqs = [i \in Slots |-> IdleReq]
    /\ \E e \in AllEndpoints, k \in AllAPIKeys :
         probe = [fn |-> "", client |-> NewClient(e, k), call |-> NoCall]

BuildListModels ==
    /\ probe.fn = ""
    /\ probe' = [probe EXCEPT !.fn = "ListModels",
                              !.call = ListModelsRequest(probe.client, ListCeiling)]
    /\ UNCHANGED <<cfg, startTime, reqs, proc>>

BuildHealth ==
    /\ probe.fn = ""
    /\ probe' = [probe EXCEPT !.fn = "Health",
                              !.call = HealthRequest(probe.client, HealthCeiling)]
    /\ UNCHANGED <<cfg, startTime, reqs, proc>>

NextURL == BuildListModels \/ BuildHealth

SpecURL == InitURL /\ [][NextURL]_vars

(***************************************************************************)
(* ListModels and the reply HandleListModels writes for it, over every     *)
(* upstream status, body and model list of up to MaxModels records.        *)
(***************************************************************************)
UpstreamModels == [id : {"a", "b"}, provider : {"", "meta"}]

AllStatuses == {200, 201, 204, 404, 500}

AllBodies ==
    {Garbage, NoBody, [form |-> "null", field |-> "absent", elems |-> <<>>],
     ObjectWith("absent", <<>>), ObjectWith("null", <<>>),
     ObjectWith("string", <<>>)}
    \cup {ObjectWith("array", ms) : ms \in SeqsUpTo(UpstreamModels, MaxModels)}

\* What httpClient.Do can hand to ListModels.
AllOutcomes ==
    {[elapsed |-> 1, err |-> NoErr, resp |-> Response(st, b)] :
        st \in AllStatuses, b \in AllBodies}
    \cup {[elapsed |-> 1, err |-> Err("transport", "connection refused", 0, NoBody),
           resp |-> NoResp]}

NoResult == [models |-> NoModels, err |-> NoErr]

InitList ==
    /\ cfg = DefaultConfig
    /\ startTime = 0
    /\ proc = Serving
    /\ reqs = [i \in Slots |-> IdleReq]
    /\ \E o \in AllOutcomes, now \in Clock :
         probe = [fn |-> "", o |-> o, now |-> now, res |-> NoResult,
                  status |-> 0, body |-> NoResponse]

ApplyListModels ==
    /\ probe.fn = ""
    /\ LET res == ListModels(probe.o, probe.now)
           w == ListModelsReply(res)
       IN  probe' = [probe EXCEPT !.fn = "ListModels", !.res = res,
                                  !.status = w.status, !.body = w.body]
    /\ UNCHANGED <<cfg, startTime, reqs, proc>>

SpecList == InitList /\ [][ApplyListModels]_vars

(***************************************************************************)
(* HandleReadiness and HandleHealth against one and the same upstream      *)
(* behaviour (the status and latency of its /health answer), the caller    *)
(* staying connected.                                                      *)
(***************************************************************************)
HealthStatuses == {200, 204, 404, 500}

HealthLatencies == Latencies \cup {ReadinessCeiling}

HealthBehaviours ==
    [lat : HealthLatencies,
     res : {TransportFailure("connection refused")}
           \cup {Response(st, NoBody) : st \in HealthStatuses}]

NoAnswer == [status |-> 0, body |-> NoResponse]

InitProbes ==
    /\ cfg = DefaultConfig
    /\ startTime = 0
    /\ proc = Serving
    /\ reqs = [i \in Slots |-> IdleReq]
    /\ \E up \in HealthBehaviours :
         probe = [up |-> up, ready |-> NoAnswer, health |-> NoAnswer]

ProbeReadiness ==
    /\ probe.ready = NoAnswer
    /\ \E o \in Do(HealthRequest(llamaClient, ReadinessCeiling), probe.up, NoDisconnect) :
         probe' = [probe EXCEPT !.ready = ReadinessReply(Health(o))]
    /\ UNCHANGED <<cfg, startTime, reqs, proc>>

ProbeHealth ==
    /\ probe.health = NoAnswer
    /\ \E now \in Clock :
         \E o \in Do(HealthRequest(llamaClient, HealthCeiling), probe.up, NoDisconnect) :
            probe' = [probe EXCEPT !.health = HealthReply(HealthResponse(now), Health(o))]
    /\ UNCHANGED <<cfg, startTime, reqs, proc>>

NextProbes == ProbeReadiness \/ ProbeHealth

SpecProbes == InitProbes /\ [][NextProbes]_vars

(***************************************************************************)
(* internal/config/config.go.  The environment gives each variable as      *)
(* unset or set to a string; strings are sequences of characters.  Of      *)
(* Config the fields kept are those the handlers and the client read.      *)
(***************************************************************************)
Unset == [set |-> FALSE, value |-> <<>>]

SetTo(value) == [set |-> TRUE, value |-> value]

\* os.Getenv(key): the value, or "" when the variable is unset.
Getenv(env, key) == IF env[key].set THEN env[key].value ELSE <<>>

getEnvOrDefault(env, key, defaultValue) ==
    IF Getenv(env, key) # <<>> THEN Getenv(env, key) ELSE defaultValue

TrueLit == <<"t", "r", "u", "e">>

FalseLit == <<"f", "a", "l", "s", "e">>

NoConfig ==
    [LlamaStackEndpoint |-> <<>>, LlamaStackAPIKey |-> <<>>, EnableAuth |-> FALSE]

\* LoadConfig: the configuration and the error ("" for nil).
LoadConfig(env) ==
    LET c == [LlamaStackEndpoint |-> getEnvOrDefault(env, "LLAMASTACK_ENDPOINT", <<>>),
              LlamaStackAPIKey |-> getEnvOrDefault(env, "LLAMASTACK_API_KEY", <<>>),
              EnableAuth |-> getEnvOrDefault(env, "ENABLE_AUTH", TrueLit) = TrueLit]
    IN  IF c.LlamaStackEndpoint = <<>>
        THEN [cfg |-> NoConfig, err |-> "LLAMASTACK_ENDPOINT is required"]
        ELSE [cfg |-> c, err |-> ""]

(***************************************************************************)
(* LoadConfig alone, over environments, and the Auth Guard of the handler  *)
(* built from its result on a request without an Authorization header.     *)
(***************************************************************************)
EnableAuthValues ==
    {Unset, SetTo(<<>>), SetTo(TrueLit), SetTo(FalseLit),
     SetTo(<<"T", "R", "U", "E">>), SetTo(<<"T", "r", "u", "e">>),
     SetTo(<<"F", "A", "L", "S", "E">>), SetTo(<<"1">>), SetTo(<<"0">>),
     SetTo(<<"y", "e", "s">>), SetTo(<<"n", "o">>), SetTo(<<"o", "n">>),
     SetTo(<<"t", "r", "u", "e", " ">>), SetTo(<<"x">>)}

Environments ==
    [LLAMASTACK_ENDPOINT : {Unset, SetTo(<<>>), SetTo(<<"h">>)},
     LLAMASTACK_API_KEY : {Unset, SetTo(<<"k">>)},
     ENABLE_AUTH : EnableAuthValues]

NoLoad == [cfg |-> NoConfig, err |-> Pending]

InitConfig ==
    /\ cfg = DefaultConfig
    /\ startTime = 0
    /\ proc = Serving
    /\ reqs = [i \in Slots |-> IdleReq]
    /\ \E env \in Environments :
         probe = [env |-> env, load |-> NoLoad, bare |-> 0]

ApplyLoadConfig ==
    /\ probe.load = NoLoad
    /\ probe' = [probe EXCEPT !.load = LoadConfig(probe.env)]
    /\ UNCHANGED <<cfg, startTime, reqs, proc>>

\* A /v1/models request without an Authorization header reaches the
\* handler built from the loaded configuration: 401, or past the guard (the
\* status then is 200 or 500, written here as 200).
BareRequest ==
    /\ probe.load # NoLoad /\ probe.load.err = ""
    /\ probe.bare = 0
    /\ LET h == NewModelsHandler(probe.load.cfg.EnableAuth)
       IN  probe' = [probe EXCEPT !.bare =
               IF h.enableAuth /\ validateAuth(<<>>) # Nil THEN 401 ELSE 200]
    /\ UNCHANGED <<cfg, startTime, reqs, proc>>

NextConfig == ApplyLoadConfig \/ BareRequest

SpecConfig == InitConfig /\ [][NextConfig]_vars

(***************************************************************************)
(* cmd/adapter/main.go: the process from its start to its exit.  main      *)
(* loads the configuration, builds the logger, probes the upstream once,   *)
(* starts the listener, waits for SIGINT or SIGTERM and then calls         *)
(* server.Shutdown with a grace period.  A connection and its request      *)
(* arrive together; time after the signal is kept as "the grace period     *)
(* has not run out" and "it has", a request that began at the signal and   *)
(* lasts the whole period ending at the same instant as the period.        *)
(***************************************************************************)
Starting ==
    [phase |-> "start", graceOver |-> FALSE, code |-> 0, err |-> "",
     killed |-> 0]

\* os.Exit(code), or the return of main (code 0): the process is gone and
\* with it every connection; `err` names the call whose error ended it.
Exit(code, err) ==
    [phase |-> "exited", graceOver |-> proc.graceOver, code |-> code,
     err |-> err,
     killed |-> Cardinality({i \in Slots : reqs[i].pc = "await"})]

NoConnections == [i \in Slots |-> IdleReq]

\* The environments main is started in: the endpoint given or not, the
\* auth flag left at its default.
MainEnvironments ==
    [LLAMASTACK_ENDPOINT : {Unset, SetTo(<<"h", "/">>)},
     LLAMASTACK_API_KEY : {SetTo(<<"k">>)},
     ENABLE_AUTH : {Unset}]

InitMain ==
    /\ cfg = NoConfig
    /\ startTime = 0
    /\ reqs = NoConnections
    /\ probe = NoResponse
    /\ proc = Starting

\* cfg, err := config.LoadConfig(); os.Exit(1) on err.
MainLoadConfig ==
    /\ proc.phase = "start"
    /\ \E env \in MainEnvironments :
         LET l == LoadConfig(env)
         IN  IF l.err # ""
             THEN proc' = Exit(1, "LoadConfig") /\ cfg' = cfg
             ELSE proc' = [proc EXCEPT !.phase = "loaded"] /\ cfg' = l.cfg
    /\ UNCHANGED <<startTime, reqs, probe>>

\* log, err := logger.NewLogger(...); os.Exit(1) on err.
MainNewLogger ==
    /\ proc.phase = "loaded"
    /\ \E ok \in BOOLEAN :
         proc' = IF ok THEN [proc EXCEPT !.phase = "logging"]
                      ELSE Exit(1, "NewLogger")
    /\ UNCHANGED <<cfg, startTime, reqs, probe>>

StartupCeiling == 10

\* MainStartupHealth ending the process when the upstream is not healthy.
MainStartupHealthFatal ==
    /\ proc.phase = "logging"
    /\ \E up \in UpstreamBehaviours :
         \E o \in Do(HealthRequest(llamaClient, StartupCeiling), up, NoDisconnect) :
            proc' = IF Health(o).kind # Nil
                    THEN Exit(1, "Health")
                    ELSE [proc EXCEPT !.phase = "checked"]
    /\ UNCHANGED <<cfg, startTime, reqs, probe>>

\* llamaClient.Health(ctx) at startup: its error is logged as a warning.
MainStartupHealth ==
    /\ proc.phase = "logging"
    /\ \E up \in UpstreamBehaviours :
         \E o \in Do(HealthRequest(llamaClient, StartupCeiling), up, NoDisconnect) :
            proc' = [proc EXCEPT !.phase = "checked",
                                 !.err = IF Health(o).kind # Nil
                                         THEN "Health" ELSE ""]
    /\ UNCHANGED <<cfg, startTime, reqs, probe>>

\* go server.ListenAndServe(): the listener is up, or it fails (the address
\* cannot be bound) and the goroutine calls os.Exit(1).
MainListenAndServe ==
    /\ proc.phase = "checked"
    /\ \E ok \in BOOLEAN :
         proc' = IF ok THEN Serving ELSE Exit(1, "ListenAndServe")
    /\ UNCHANGED <<cfg, startTime, reqs, probe>>

\* <-quit, then server.Shutdown(ctx) begins: the listener is closed and so
\* is every idle connection.
MainSignal ==
    /\ proc.phase = "serving"
    /\ proc' = [proc EXCEPT !.phase = "draining"]
    /\ reqs' = [i \in Slots |->
                  IF reqs[i].pc = "done" THEN IdleReq ELSE reqs[i]]
    /\ UNCHANGED <<cfg, startTime, probe>>

\* The 30 s context of server.Shutdown ends while requests are in flight:
\* they are requests whose handler can last that long.
GracePeriodEnds ==
    /\ proc.phase = "draining"
    /\ ~proc.graceOver
    /\ \E i \in Slots : reqs[i].pc = "await"
    /\ \A i \in Slots :
          reqs[i].pc = "await" => reqs[i].calls[1].ceiling >= ShutdownGrace
    /\ proc' = [proc EXCEPT !.graceOver = TRUE]
    /\ UNCHANGED <<cfg, startTime, reqs, probe>>

\* server.Shutdown returns nil, every connection being idle; main logs
\* "Server exited" and returns.
MainShutdownReturns ==
    /\ proc.phase = "draining"
    /\ \A i \in Slots : reqs[i].pc # "await"
    /\ proc' = Exit(0, "")
    /\ reqs' = NoConnections
    /\ UNCHANGED <<cfg, startTime, probe>>

\* MainShutdownForced as if main called server.Close(): no wait at all.
MainShutdownNoWait ==
    /\ proc.phase = "draining"
    /\ proc' = Exit(1, "Shutdown")
    /\ reqs' = NoConnections
    /\ UNCHANGED <<cfg, startTime, probe>>

\* server.Shutdown returns ctx.Err() at the end of the grace period; main
\* calls os.Exit(1), which ends the handlers still running.
MainShutdownForced ==
    /\ proc.phase = "draining"
    /\ proc.graceOver
    /\ proc' = Exit(1, "Shutdown")
    /\ reqs' = NoConnections
    /\ UNCHANGED <<cfg, startTime, probe>>

Handlers(i) ==
    \/ HandleListModelsBegin(i)
    \/ HandleListModelsReturn(i)
    \/ HandleHealthBegin(i)
    \/ HandleHealthReturn(i)
    \/ HandleReadinessBegin(i)
    \/ HandleReadinessReturn(i)
    \/ HandleLiveness(i)
    \/ Close(i)

NextMain ==
    \/ MainLoadConfig
    \/ MainNewLogger
    \/ MainStartupHealth
    \/ MainListenAndServe
    \/ MainSignal
    \/ GracePeriodEnds
    \/ MainShutdownReturns
    \/ MainShutdownForced
    \/ \E i \in Slots : Handlers(i)

SpecMain == InitMain /\ [][NextMain]_vars

\* The Go scheduler runs every goroutine that can run and the runtime's
\* timers fire: a handler inside httpClient.Do returns, a response sent
\* leaves its connection idle, and server.Shutdown returns when it can.
FairSpecMain ==
    /\ SpecMain
    /\ \A i \in Slots :
          /\ WF_vars(HandleListModelsReturn(i))
          /\ WF_vars(HandleHealthReturn(i))
          /\ WF_vars(HandleReadinessReturn(i))
    /\ WF_vars(MainShutdownReturns)
    /\ WF_vars(MainShutdownForced)

(***************************************************************************)
(* Properties.                                                             *)
(***************************************************************************)
Done(i) == reqs[i].pc = "done"

\* The two error envelopes, written out.
Envelope401 ==
    [error |-> [message |-> "Authentication required",
                type |-> "authentication_error"]]

Envelope500 ==
    [error |-> [message |-> "Failed to retrieve models from external service",
                type |-> "internal_error"]]

\* h begins with the seven characters B e a r e r and a space.
StartsWithBearer(h) ==
    /\ Len(h) >= 7
    /\ <<h[1], h[2], h[3], h[4], h[5], h[6], h[7]>> = <<"B", "e", "a", "r", "e", "r", " ">>

\* A header the Auth Guard must turn down: absent, without the prefix, or
\* the prefix alone.
MustReject(h) == ~StartsWithBearer(h) \/ Len(h) = 7

\* A body json.Decoder turns into a LlamaStackResponse.
Decodable(body) ==
    \/ body.form = "null"
    \/ body.form = "object" /\ body.field \in {"absent", "null", "array"}

\* httpClient.Do handed ListModels a response.
Answered(o) == o.err = NoErr /\ o.resp.kind = "response"

\* C1: with auth enforced, a /v1/models request whose Authorization header
\* the Auth Guard turns down is answered at once with 401 and the
\* authentication_error envelope, and no upstream request is ever sent for
\* it.
C1_RejectedStopsAt401 ==
    \A i \in Slots :
        (reqs[i].path = "/v1/models" /\ cfg.EnableAuth
            /\ MustReject(reqs[i].authHeader))
        => /\ Done(i)
           /\ reqs[i].status = 401
           /\ reqs[i].body = Envelope401
           /\ reqs[i].calls = <<>>
           /\ reqs[i].up = NoUp

C1_Witness ==
    \E i \in Slots :
        /\ Done(i) /\ reqs[i].path = "/v1/models" /\ cfg.EnableAuth
        /\ reqs[i].authHeader = <<>> /\ reqs[i].status = 401

\* C2: validateAuth tests presence, then the case-sensitive prefix
\* "Bearer ", then a non-empty rest; the first test that fails decides the
\* error, the three errors differ from each other, and the prefix followed
\* by any non-empty rest is accepted.
C2_AuthGuardOrder ==
    probe.err # Pending =>
        LET h == probe.authHeader
        IN  /\ h = <<>> => probe.err = MsgMissing
            /\ (h # <<>> /\ ~StartsWithBearer(h)) => probe.err = MsgFormat
            /\ (StartsWithBearer(h) /\ Len(h) = 7) => probe.err = MsgEmpty
            /\ (StartsWithBearer(h) /\ Len(h) > 7) => probe.err = Nil
            /\ Cardinality({MsgMissing, MsgFormat, MsgEmpty, Nil}) = 4

C2_Witness ==
    /\ probe.err = Nil
    /\ probe.authHeader = BearerPrefix \o <<" ", ".">>

\* C3: with auth disabled, a /v1/models request never runs the Auth Guard
\* and is never answered 401, whatever its Authorization header: the
\* answer is 200 when the upstream call brought a decodable 200 response
\* and 500 otherwise.
C3_AuthDisabledNever401 ==
    ~cfg.EnableAuth =>
        \A i \in Slots :
            reqs[i].path = "/v1/models" =>
                /\ reqs[i].guard = 0
                /\ reqs[i].status # 401
                /\ Done(i) =>
                    /\ reqs[i].status \in {200, 500}
                    /\ reqs[i].status = 200 <=>
                          /\ Answered(reqs[i].did)
                          /\ reqs[i].did.resp.status = 200
                          /\ Decodable(reqs[i].did.resp.body)

C3_Witness ==
    /\ ~cfg.EnableAuth
    /\ \E i \in Slots :
        /\ Done(i) /\ reqs[i].path = "/v1/models"
        /\ MustReject(reqs[i].authHeader) /\ reqs[i].status = 200

\* C4: past authentication, HandleListModels answers 500 with the
\* internal_error envelope when the upstream call fails (transport
\* failure, timeout, cancellation, a status outside 2xx, an undecodable
\* body), 200 with the list envelope when it brought a decodable 200
\* response, and nothing else.
C4_UpstreamFailureIs500 ==
    \A i \in Slots :
        (Done(i) /\ reqs[i].path = "/v1/models" /\ reqs[i].calls # <<>>) =>
            LET o == reqs[i].did
                failed == \/ ~Answered(o)
                          \/ o.resp.status < 200 \/ o.resp.status > 299
                          \/ ~Decodable(o.resp.body)
                succeeded == /\ Answered(o) /\ o.resp.status = 200
                             /\ Decodable(o.resp.body)
            IN  /\ reqs[i].status \in {200, 500}
                /\ failed => reqs[i].status = 500
                /\ succeeded => reqs[i].status = 200
                /\ reqs[i].status = 500 => reqs[i].body = Envelope500
                /\ reqs[i].status = 200 =>
                      /\ DOMAIN reqs[i].body = {"object", "data"}
                      /\ reqs[i].body.object = "list"

C4_Witness ==
    \E i \in Slots :
        /\ Done(i) /\ reqs[i].path = "/v1/models" /\ reqs[i].status = 500
        /\ reqs[i].did.err.text = "context deadline exceeded"

\* A HealthSnapshot without its timestamp and uptime.
Timeless(body) == [body EXCEPT !.timestamp = 0, !.uptime = 0]

FailureStatuses == {500, 503}

\* C5: a failure answer carries nothing of the upstream's failure: the 500
\* of /v1/models, the 503 of /ready and, timestamp and uptime apart, the
\* 503 of /health are each one fixed body, so two failed requests to the
\* same path get the same answer whatever went wrong upstream.
C5_FailureBodyFixed ==
    /\ \A i \in Slots :
        (Done(i) /\ reqs[i].calls # <<>> /\ reqs[i].status # 200) =>
            /\ reqs[i].path = "/v1/models" =>
                  reqs[i].status = 500 /\ reqs[i].body = Envelope500
            /\ reqs[i].path = "/ready" =>
                  /\ reqs[i].status = 503
                  /\ reqs[i].body = [ready |-> FALSE, reason |-> "llamastack_unavailable"]
            /\ reqs[i].path = "/health" =>
                  /\ reqs[i].status = 503
                  /\ DOMAIN reqs[i].body =
                        {"status", "timestamp", "services", "uptime", "version"}
                  /\ Timeless(reqs[i].body) =
                        [status |-> "unhealthy", timestamp |-> 0,
                         services |-> [llamastack |-> "down"], uptime |-> 0,
                         version |-> "1.0.0"]
    /\ \A i, j \in Slots :
        (Done(i) /\ Done(j) /\ reqs[i].path = reqs[j].path
            /\ reqs[i].status \in FailureStatuses
            /\ reqs[j].status \in FailureStatuses) =>
            /\ reqs[i].status = reqs[j].status
            /\ reqs[i].path # "/health" => reqs[i].body = reqs[j].body
            /\ reqs[i].path = "/health" =>
                  Timeless(reqs[i].body) = Timeless(reqs[j].body)

C5_Witness ==
    \E i \in Slots :
        /\ Done(i) /\ reqs[i].path = "/v1/models" /\ reqs[i].status = 500
        /\ reqs[i].did.resp.status = 500 /\ reqs[i].did.resp.body = Garbage

\* The model list an upstream body carries: its array, or nothing when the
\* "models" member is absent or null.
UpstreamList(body) == IF body.field = "array" THEN body.elems ELSE <<>>

\* C6: a successful ListModels over an upstream list of N records returns
\* N records in the same order, record k with the id of upstream record k,
\* object "model" and owned_by "llamastack", whatever the upstream
\* record's provider.
C6_OneToOneInOrder ==
    (probe.fn = "ListModels" /\ probe.res.err = NoErr) =>
        LET in == UpstreamList(probe.o.resp.body)
            out == probe.res.models.elems
        IN  /\ Len(out) = Len(in)
            /\ \A k \in 1..Len(in) :
                  /\ out[k].id = in[k].id
                  /\ out[k].object = "model"
                  /\ out[k].owned_by = "llamastack"

C6_Witness ==
    /\ probe.fn = "ListModels" /\ probe.res.err = NoErr
    /\ Len(probe.res.models.elems) = 2
    /\ probe.res.models.elems[1].id = "b"
    /\ probe.res.models.elems[2].id = "a"
    /\ probe.o.resp.body.elems[1].provider = "meta"

\* C7: the data member of every 200 answer of /v1/models is an array,
\* never null: an upstream list that is empty, null or absent gives
\* object "list" with the empty array.
C7_DataNeverNull ==
    (probe.fn = "ListModels" /\ probe.status = 200) =>
        /\ DOMAIN probe.body = {"object", "data"}
        /\ probe.body.object = "list"
        /\ probe.body.data.null = FALSE
        /\ UpstreamList(probe.o.resp.body) = <<>> => probe.body.data.items = <<>>

C7_Witness ==
    /\ probe.fn = "ListModels" /\ probe.status = 200
    /\ probe.o.resp.body = ObjectWith("null", <<>>)
    /\ probe.body.data.items = <<>>

\* s ends in a slash.
LastIsSlash(s) == Len(s) > 0 /\ s[Len(s)] = "/"

\* The endpoint without its one trailing slash, if it has one.
Base(endpoint) ==
    IF LastIsSlash(endpoint) THEN SubSeq(endpoint, 1, Len(endpoint) - 1)
    ELSE endpoint

\* C8: for a base URL given with or without its trailing slash, the URL of
\* ListModels is the base, one slash and v1/models, and the URL of Health
\* the base, one slash and health: the same for both variants, with
\* neither a doubled nor a missing slash at the joint.
C8_OneSlashAtTheJoint ==
    (probe.fn \in {"ListModels", "Health"}
        /\ ~LastIsSlash(Base(probe.client.endpoint))) =>
        LET base == Base(probe.client.endpoint)
            path == IF probe.fn = "ListModels"
                    THEN <<"v", "1", "/", "m", "o", "d", "e", "l", "s">>
                    ELSE <<"h", "e", "a", "l", "t", "h">>
        IN  probe.call.url = base \o <<"/">> \o path

C8_Witness ==
    /\ probe.fn = "Health"
    /\ probe.client.endpoint = <<"h", ":", "/">>
    /\ probe.call.url = <<"h", ":", "/", "h", "e", "a", "l", "t", "h">>

\* C9: /live is answered 200 with alive true in every state, and no
\* upstream request is sent for it.
C9_LivenessUnconditional ==
    \A i \in Slots :
        reqs[i].path = "/live" =>
            /\ Done(i)
            /\ reqs[i].status = 200
            /\ DOMAIN reqs[i].body = {"alive", "timestamp"}
            /\ reqs[i].body.alive = TRUE
            /\ reqs[i].calls = <<>>
            /\ reqs[i].up = NoUp

C9_Witness ==
    \E i \in Slots : Done(i) /\ reqs[i].path = "/live" /\ reqs[i].status = 200

\* The answer of /health, with the upstream's entry of services under `key`.
HealthAnswer(key) ==
    \A i \in Slots :
        (Done(i) /\ reqs[i].path = "/health") =>
            LET o == reqs[i].did
                b == reqs[i].body
                ok == Answered(o) /\ o.resp.status >= 200 /\ o.resp.status <= 299
            IN  /\ DOMAIN b = {"status", "timestamp", "services", "uptime", "version"}
                /\ b.version = "1.0.0"
                /\ b.uptime = b.timestamp - startTime
                /\ DOMAIN b.services = {key}
                /\ ok => /\ reqs[i].status = 200
                         /\ b.status = "healthy"
                         /\ b.services[key] = "up"
                         /\ o.elapsed <= 10
                /\ ~ok => /\ reqs[i].status = 503
                          /\ b.status = "unhealthy"
                          /\ b.services[key] = "down"
                /\ reqs[i].up.lat > 10 => ~ok

\* C10, as claimed: /health is answered 200, "healthy" and upstream "up"
\* exactly when the upstream health call succeeds within 10 seconds, and
\* otherwise 503 with the full snapshot, "unhealthy" and services.upstream
\* "down"; version and uptime are always there.
C10_Claimed == HealthAnswer("upstream")

\* C10, amended: the same, with the upstream's entry of services under the
\* key "llamastack".
C10_HealthAnswer == HealthAnswer("llamastack")

C10_Witness ==
    \E i \in Slots :
        /\ Done(i) /\ reqs[i].path = "/health" /\ reqs[i].status = 503
        /\ reqs[i].did.err.text = "context deadline exceeded"
        /\ reqs[i].did.elapsed = 10
        /\ reqs[i].body.services["llamastack"] = "down"


\* Health returned nil for what httpClient.Do returned: a 2xx answer.
HealthCallOK(o) == Answered(o) /\ o.resp.status >= 200 /\ o.resp.status <= 299

\* C11: /ready is answered 200 {ready:true} exactly when the upstream
\* health call succeeds within 5 seconds, and otherwise 503 with the terse
\* {ready:false, reason}; its body never has the shape of the /health
\* snapshot.
C11_ReadinessAnswer ==
    \A i \in Slots :
        (Done(i) /\ reqs[i].path = "/ready") =>
            LET o == reqs[i].did
                b == reqs[i].body
            IN  /\ HealthCallOK(o) =>
                      /\ reqs[i].status = 200
                      /\ b = [ready |-> TRUE]
                      /\ o.elapsed <= 5
                /\ ~HealthCallOK(o) =>
                      /\ reqs[i].status = 503
                      /\ DOMAIN b = {"ready", "reason"}
                      /\ b.ready = FALSE
                /\ reqs[i].up.lat > 5 => ~HealthCallOK(o)
                /\ DOMAIN b \cap {"status", "services", "uptime", "version"} = {}

C11_Witness ==
    \E i \in Slots :
        /\ Done(i) /\ reqs[i].path = "/ready" /\ reqs[i].status = 503
        /\ reqs[i].up.lat = 7 /\ reqs[i].up.res.status = 204
        /\ reqs[i].did.elapsed = 5
        /\ reqs[i].body = [ready |-> FALSE, reason |-> "llamastack_unavailable"]


\* The caller of slot i has the response: it stayed on the connection and
\* the flush met the write deadline.
CallerReceives(i) == ~reqs[i].cancel.on /\ reqs[i].flushed

\* The upstream call of slot i's /v1/models exchange outlasted the ceiling:
\* the upstream answers after it or never, the caller still waiting.
ListTimedOut(i) ==
    /\ Done(i) /\ reqs[i].path = "/v1/models" /\ Len(reqs[i].calls) = 1
    /\ ~reqs[i].cancel.on
    /\ reqs[i].up.lat > ListCeiling

\* C12: when the upstream model-list call exceeds the 30 s ceiling, the
\* caller of /v1/models receives HTTP 500 with the error type
\* internal_error, the server's read and write timeouts notwithstanding.
C12_TimeoutReaches500 ==
    \A i \in Slots :
        ListTimedOut(i) =>
            /\ reqs[i].status = 500
            /\ reqs[i].body = InternalError
            /\ CallerReceives(i)

\* C12, what the handler does: it writes the 500 at the ceiling.
C12_TimeoutWrites500 ==
    \A i \in Slots :
        ListTimedOut(i) =>
            /\ reqs[i].status = 500
            /\ reqs[i].body = InternalError
            /\ reqs[i].did.elapsed = ListCeiling
            /\ reqs[i].did.err.text = "context deadline exceeded"

C12_Witness ==
    \E i \in Slots :
        /\ ListTimedOut(i)
        /\ reqs[i].status = 500
        /\ ~CallerReceives(i)


\* The fixed ceiling of the handler serving `path`.
CeilingOf(path) ==
    CASE path = "/v1/models" -> 30
      [] path = "/health" -> 10
      [] path = "/ready" -> 5
      [] OTHER -> 0

\* The first of the three limits of slot i's outbound call: the caller's
\* disconnect, the handler's ceiling, the client's own 30 s timeout.
FirstLimit(i) ==
    LET c == Min(CeilingOf(reqs[i].path), 30)
    IN  IF reqs[i].cancel.on THEN Min(reqs[i].cancel.at, c) ELSE c

\* C13: every outbound call is abandoned at the first of the inbound
\* request's cancellation, the handler's ceiling (30, 10, 5) and the
\* client's 30 s timeout, so the handler answers no later than its ceiling
\* whatever the upstream does.
C13_AbandonedAtFirstLimit ==
    \A i \in Slots :
        (Done(i) /\ Len(reqs[i].calls) = 1) =>
            LET o == reqs[i].did
            IN  /\ o.elapsed <= CeilingOf(reqs[i].path)
                /\ o.elapsed = Min(reqs[i].up.lat, FirstLimit(i))
                /\ reqs[i].up.lat > FirstLimit(i) =>
                      /\ o.err.kind = "transport"
                      /\ o.resp = NoResp
                      /\ reqs[i].status \in FailureStatuses

C13_Witness ==
    \E i \in Slots :
        /\ Done(i) /\ reqs[i].path = "/health" /\ ~reqs[i].cancel.on
        /\ reqs[i].up.lat = 40
        /\ reqs[i].did.elapsed = 10
        /\ reqs[i].status = 503


\* Slot i's handler called the upstream client.
AsksUpstream(i) == reqs[i].path \in {"/v1/models", "/health", "/ready"}

\* C14: nothing is retried.  An inbound request to /v1/models, /health or
\* /ready causes at most one outbound request, and when that one attempt
\* fails the call has failed and the handler answers with the failure;
\* maxRetries causes no second attempt.
C14_NoRetry ==
    \A i \in Slots :
        /\ Len(reqs[i].calls) <= 1
        /\ reqs[i].pc = "await" => Len(reqs[i].calls) = 1
        /\ (Done(i) /\ AsksUpstream(i) /\ Len(reqs[i].calls) = 1
              /\ reqs[i].did.err.kind # Nil) =>
                reqs[i].status \in FailureStatuses

C14_Witness ==
    \E i \in Slots :
        /\ Done(i) /\ reqs[i].path = "/v1/models"
        /\ Len(reqs[i].calls) = 1
        /\ reqs[i].did.err.text = "connection refused"
        /\ reqs[i].status = 500


\* The answers the request of exchange r can get when it is the only one
\* served, against the upstream behaviour and caller disconnect r records.
Alone(r) ==
    CASE r.path = "/v1/models" ->
           IF modelsHandler.enableAuth /\ validateAuth(r.authHeader) # Nil
           THEN {[status |-> 401, body |-> AuthenticationRequired]}
           ELSE {ListModelsReply(ListModels(o, now)) :
                    o \in Do(ListModelsRequest(llamaClient, ListCeiling), r.up, r.cancel),
                    now \in Clock}
      [] r.path = "/health" ->
           {HealthReply(HealthResponse(now), Health(o)) :
               o \in Do(HealthRequest(llamaClient, HealthCeiling), r.up, r.cancel),
               now \in Clock}
      [] r.path = "/ready" ->
           {ReadinessReply(Health(o)) :
               o \in Do(HealthRequest(llamaClient, ReadinessCeiling), r.up, r.cancel)}
      [] r.path = "/live" -> {LivenessReply(now) : now \in Clock}
      [] OTHER -> {}

EachAsIfAlone ==
    \A i \in Pair :
        (reqs[i].pc = "done") =>
            [status |-> reqs[i].status, body |-> reqs[i].body] \in Alone(reqs[i])

\* C17: handlers write no shared state.  The configuration and the
\* process-start timestamp are unchanged by every handler step, and under
\* any interleaving of two concurrent requests each response is one the
\* request gets when run alone against the same upstream behaviour.
C17_NoSharedWrites ==
    /\ []EachAsIfAlone
    /\ [][cfg' = cfg /\ startTime' = startTime]_vars

C17_Witness ==
    /\ reqs[1].pc = "await" /\ reqs[1].path = "/v1/models"
    /\ reqs[2].pc = "done" /\ reqs[2].path = "/health"
    /\ reqs[2].status = 503
    /\ reqs[2].body.uptime = 1


\* ListModels has run on an upstream answer (a response, not a transport
\* failure).
ListedAnswer == probe.fn = "ListModels" /\ Answered(probe.o)

\* C18: for every upstream status code ListModels fails with a status error
\* exactly when the code is outside 200-299, the classification Health
\* uses, and an answer with any 2xx status and a decodable body is a
\* successful list call.
C18_ListFailsOutside2xx ==
    ListedAnswer =>
        LET st == probe.o.resp.status
        IN  /\ (probe.res.err.kind = "status") <=> ~(st >= 200 /\ st <= 299)
            /\ ListStatusFails(st) <=> ~HealthStatusOK(st)
            /\ (st >= 200 /\ st <= 299 /\ Decodable(probe.o.resp.body)) =>
                  /\ probe.res.err.kind = Nil
                  /\ probe.status = 200

\* C18, what ListModels does: it fails with a status error exactly when
\* the code is not 200, before looking at the body.
C18_ListFailsUnless200 ==
    ListedAnswer =>
        LET st == probe.o.resp.status
        IN  /\ (probe.res.err.kind = "status") <=> st # 200
            /\ (st = 200 /\ Decodable(probe.o.resp.body)) =>
                  probe.res.err.kind = Nil /\ probe.status = 200
            /\ st # 200 => probe.status = 500

C18_Witness ==
    /\ ListedAnswer
    /\ probe.o.resp.status = 201
    /\ Decodable(probe.o.resp.body)
    /\ Len(probe.o.resp.body.elems) = 1
    /\ HealthStatusOK(probe.o.resp.status)
    /\ probe.res.err.kind = "status"
    /\ probe.status = 500


\* C19: readiness implies deep health.  For one upstream behaviour (status
\* and latency of its health answer, the caller staying connected),
\* whenever /ready answers 200, /health against the same behaviour answers
\* 200 too.
C19_ReadyImpliesHealthy ==
    (probe.ready.status = 200 /\ probe.health # NoAnswer) =>
        /\ probe.health.status = 200
        /\ probe.health.body.status = "healthy"

C19_Witness ==
    /\ probe.up.lat = ReadinessCeiling
    /\ probe.up.res.status = 204
    /\ probe.ready = [status |-> 200, body |-> [ready |-> TRUE]]
    /\ probe.health.status = 200


\* LoadConfig has returned a configuration.
Loaded == probe.load # NoLoad /\ probe.load.err = ""

\* The values of ENABLE_AUTH that say 'false'.
ExpressesFalse(v) ==
    v.set /\ v.value \in {FalseLit, <<"F", "A", "L", "S", "E">>, <<"0">>, <<"n", "o">>}

\* C20: the auth flag is on unless ENABLE_AUTH expresses 'false': an unset,
\* empty or unrecognised value never leaves /v1/models reachable without a
\* bearer token.
C20_AuthOnUnlessFalse ==
    Loaded =>
        /\ probe.load.cfg.EnableAuth <=> ~ExpressesFalse(probe.env.ENABLE_AUTH)
        /\ (probe.bare # 0 /\ ~ExpressesFalse(probe.env.ENABLE_AUTH)) =>
              probe.bare = 401

\* C20, what LoadConfig does: the flag is on exactly when ENABLE_AUTH is
\* unset, empty or the string "true".
C20_AuthOnOnlyForTrue ==
    Loaded =>
        /\ probe.load.cfg.EnableAuth <=>
              Getenv(probe.env, "ENABLE_AUTH") \in {<<>>, TrueLit}
        /\ probe.bare # 0 =>
              (probe.bare = 401 <=> probe.load.cfg.EnableAuth)

C20_Witness ==
    /\ Loaded
    /\ probe.env.ENABLE_AUTH = SetTo(<<"T", "R", "U", "E">>)
    /\ ~probe.load.cfg.EnableAuth
    /\ probe.bare = 200


\* The process ended through server.Shutdown, after a signal.
ShutDown == proc.phase = "exited" /\ proc.err \in {"", "Shutdown"}

\* Requests in flight are waited for: the process ends with a handler
\* still running only when the grace period has run out, and then it can
\* end at once.
WaitsWithinGrace ==
    /\ ShutDown => (proc.killed > 0 => proc.graceOver)
    /\ (ShutDown /\ proc.code = 0) => proc.killed = 0
    /\ (proc.phase = "draining" /\ proc.graceOver) => ENABLED MainShutdownForced
    /\ (proc.phase = "draining" /\ \A i \in Slots : reqs[i].pc # "await") =>
          ENABLED MainShutdownReturns

\* After the signal no connection is taken up.
NoNewConnections ==
    proc.phase \in {"draining", "exited"} =>
        \A i \in Slots : reqs[i].pc = "idle" => reqs'[i].pc = "idle"

\* C15: after SIGINT/SIGTERM the server takes no new connection, waits for
\* the requests in flight to complete and then the process terminates; the
\* wait is bounded by the 30 s grace period, after which the process
\* terminates even with requests in flight.
C15_GracefulShutdown ==
    /\ []WaitsWithinGrace
    /\ [][NoNewConnections]_vars
    /\ (proc.phase = "draining") ~> (proc.phase = "exited")

C15_Witness ==
    /\ ShutDown
    /\ proc.graceOver
    /\ proc.killed = 1
    /\ proc.code = 1

\* The calls of main whose error ends the process.
FatalCalls == {"LoadConfig", "NewLogger", "ListenAndServe", "Shutdown"}

\* C16 as claimed: the one error that ends the process is the missing
\* upstream base URL at startup; no other error does, and the server goes
\* on answering.  (The exit on NewLogger's error is left aside here: whether
\* NewLogger can fail is decided in internal/logger.)
C16_OnlyMissingConfigIsFatal ==
    /\ (proc.phase = "exited" /\ proc.code # 0 /\ proc.err # "NewLogger") =>
          (proc.err = "LoadConfig" /\ cfg = NoConfig)
    /\ proc.phase = "serving" =>
          \A i \in Slots : ENABLED Handlers(i)

\* C16: the errors that end the process are those of main's own calls
\* (LoadConfig on a missing upstream base URL, NewLogger, ListenAndServe,
\* and Shutdown outlasting its grace period).  No request-time error and no
\* failed health check at startup ends it, and while it serves every
\* connection can go on: a finished one is released, a free one is
\* answered.
C16_FatalErrors ==
    /\ (proc.phase = "exited" /\ proc.code # 0) => proc.err \in FatalCalls
    /\ (proc.phase = "exited" /\ proc.code = 0) => proc.err = ""
    /\ (proc.phase = "exited" /\ proc.err = "LoadConfig") => cfg = NoConfig
    /\ (proc.phase = "exited" /\ proc.err # "LoadConfig") =>
          cfg.LlamaStackEndpoint # <<>>
    /\ \A i \in Slots : reqs[i].pc # "idle" => Running
    /\ proc.phase = "serving" =>
          \A i \in Slots :
              /\ reqs[i].pc = "done" => ENABLED Close(i)
              /\ reqs[i].pc = "idle" =>
                    /\ ENABLED HandleListModelsBegin(i)
                    /\ ENABLED HandleHealthBegin(i)
                    /\ ENABLED HandleReadinessBegin(i)
                    /\ ENABLED HandleLiveness(i)

C16_Witness ==
    \E i \in Slots :
        /\ proc.phase = "serving"
        /\ Done(i) /\ reqs[i].path = "/v1/models"
        /\ reqs[i].status = 500
        /\ reqs[i].did.err.text = "connection refused"

====
